---- MODULE Spec2Model ----
(***************************************************************************)
(* The request handler of lambda/apigw-handler/index.py: one Lambda        *)
(* invocation logs the receipt of the request, validates the JSON body (or *)
(* builds the fallback record), writes one item to the DynamoDB table and  *)
(* returns an HTTP response.  Invocations run concurrently and share only  *)
(* the table.                                                              *)
(***************************************************************************)
EXTENDS Integers, Sequences, FiniteSets, TLC

\* Number of handler invocations, all of which may be in flight together.
MaxInvocations == 2

Invocations == 1..MaxInvocations

(***************************************************************************)
(* Python / JSON values.  Every value is a record tagged with its type, a  *)
(* dict carries the function from its keys to its values.                  *)
(***************************************************************************)
PyNone == [t |-> "null"]

PyInt(n) == [t |-> "int", n |-> n]

PyStr(s) == [t |-> "str", s |-> s]

PyList == [t |-> "list"]

PyDict(f) == [t |-> "dict", d |-> f]

EmptyDict == PyDict(<<>>)

\* dict.get(key, default)
Get(dict, key, default) == IF key \in DOMAIN dict.d THEN dict.d[key] ELSE default

\* Truth value of a body: None and the empty string are falsy.
Truthy(v) == v # PyNone /\ v # PyStr("")

\* repr(v) in place of str(v): a string keeps its quotes.
StrRepr(v) ==
    CASE v.t = "str" -> "'" \o v.s \o "'"
      [] v.t = "int" -> ToString(v.n)
      [] v.t = "null" -> "None"
      [] v.t = "list" -> "[]"

\* str(v) of Python
Str(v) ==
    CASE v.t = "str" -> v.s
      [] v.t = "int" -> ToString(v.n)
      [] v.t = "null" -> "None"
      [] v.t = "list" -> "[]"

\* json.dumps of a value that is not a dict
DumpsScalar(v) ==
    CASE v.t = "str" -> "\"" \o v.s \o "\""
      [] v.t = "int" -> ToString(v.n)
      [] v.t = "null" -> "null"
      [] v.t = "list" -> "[]"

\* The order in which the keys of a dict are written out.
KeyOrder == <<"id", "year", "title", "message", "error">>

RECURSIVE DumpsMembers(_, _, _)
DumpsMembers(f, ks, first) ==
    IF ks = <<>> THEN ""
    ELSE IF Head(ks) \in DOMAIN f
         THEN (IF first THEN "" ELSE ", ")
              \o "\"" \o Head(ks) \o "\": " \o DumpsScalar(f[Head(ks)])
              \o DumpsMembers(f, Tail(ks), FALSE)
         ELSE DumpsMembers(f, Tail(ks), first)

\* json.dumps(v)
JsonDumps(v) ==
    IF v.t = "dict" THEN "{" \o DumpsMembers(v.d, KeyOrder, TRUE) \o "}"
    ELSE DumpsScalar(v)

(***************************************************************************)
(* The requests: the values a client may send for each field, the JSON     *)
(* documents built from them, and the events and contexts the handler is   *)
(* invoked with.                                                           *)
(***************************************************************************)
Keys == {"id", "year", "title"}

IdValues == {PyStr("a"), PyInt(7)}

YearValues == {PyInt(2012), PyStr("1999"), PyStr("abc")}

TitleValues == {PyStr("x"), PyNone}

FullPayloads ==
    {PyDict([id |-> a, year |-> y, title |-> t]) :
        a \in IdValues, y \in YearValues, t \in TitleValues}

DefaultFields == [id |-> PyStr("a"), year |-> PyInt(2012), title |-> PyStr("x")]

PartialPayloads ==
    {PyDict([k \in K |-> DefaultFields[k]]) : K \in (SUBSET Keys) \ {Keys}}

\* Every JSON document a body of the model can hold.
JsonDocs == FullPayloads \cup PartialPayloads \cup {PyList}

BodyTexts == {JsonDumps(v) : v \in JsonDocs} \cup {"not json", ""}

Identity == PyDict([sourceIp |-> PyStr("10.1.0.9"), userAgent |-> PyStr("curl")])

\* Events as the API Gateway proxy integration delivers them.
GatewayEvents ==
    {PyDict([requestContext |-> PyDict([identity |-> Identity]), body |-> b]) :
        b \in {PyStr(s) : s \in BodyTexts} \cup {PyNone}}

\* Other events a caller of the function can send.
DirectEvents ==
    {EmptyDict,
     PyDict([requestContext |-> PyNone, body |-> PyStr("not json")]),
     PyDict([requestContext |-> PyDict([identity |-> PyNone]), body |-> PyNone])}

\* A context that exposes request_id, and one that exposes only aws_request_id.
TestContext == [request_id |-> "r-1"]

LambdaContext == [aws_request_id |-> "r-1"]

Requests ==
    {[event |-> e, context |-> TestContext] : e \in GatewayEvents \cup DirectEvents}
    \cup {[event |-> PyDict([requestContext |-> PyDict([identity |-> Identity]),
                             body |-> PyStr("not json")]),
           context |-> LambdaContext]}

\* The document each text of the model is the JSON text of, if any.
Parsed == [s \in BodyTexts |-> {v \in JsonDocs : JsonDumps(v) = s}]

\* json.loads(s) returns a value, or raises JSONDecodeError.
IsJson(s) == Parsed[s] # {}

JsonLoads(s) == CHOOSE v \in Parsed[s] : TRUE

(***************************************************************************)
(* The state.                                                              *)
(***************************************************************************)
VARIABLES
    pc,          \* per invocation: where the handler is
    request,     \* per invocation: the event and context it was invoked with
    item,        \* per invocation: the Item handed to put_item
    exc,         \* per invocation: the exception raised, if any
    log,         \* per invocation: the log entries it emitted, in order
    response,    \* per invocation: the value returned
    demo_table,  \* the items of the DynamoDB table
    calls,       \* the put_item calls the table received, in order
    issued       \* the identifiers uuid4 has produced so far

vars == <<pc, request, item, exc, log, response, demo_table, calls, issued>>

NoRequest == [event |-> EmptyDict, context |-> <<>>]

NoItem == [absent |-> TRUE]

NoExc == [type |-> "none", arg |-> ""]

NoResponse == [returned |-> FALSE]

Exc(type, arg) == [type |-> type, arg |-> arg]

Entry(level, name) == [level |-> level, event |-> name]

TABLE_NAME == "demo_table"

Init ==
    /\ pc = [i \in Invocations |-> "idle"]
    /\ request = [i \in Invocations |-> NoRequest]
    /\ item = [i \in Invocations |-> NoItem]
    /\ exc = [i \in Invocations |-> NoExc]
    /\ log = [i \in Invocations |-> <<>>]
    /\ response = [i \in Invocations |-> NoResponse]
    /\ demo_table = {}
    /\ calls = <<>>
    /\ issued = {}

(***************************************************************************)
(* The handler.  An invocation takes two steps: Invoke runs it from its    *)
(* entry to the put_item call (or to the response of an except clause),    *)
(* PutItem is the call to the table and what follows it.                   *)
(***************************************************************************)

\* Lines 20-29 raise AttributeError when requestContext or identity is None
\* (None has no get) or when the context has no request_id attribute.
ReceiptRaises(req) ==
    LET request_context == Get(req.event, "requestContext", EmptyDict) IN
    \/ request_context = PyNone
    \/ "request_id" \notin DOMAIN req.context
    \/ Get(request_context, "identity", EmptyDict) = PyNone

\* The first of year, title, id (the order of the lookups) the payload lacks.
MissingKey(payload) ==
    IF "year" \notin DOMAIN payload.d THEN "year"
    ELSE IF "title" \notin DOMAIN payload.d THEN "title"
    ELSE IF "id" \notin DOMAIN payload.d THEN "id"
    ELSE ""

\* The Item of the payload branch.
PayloadItem(payload) ==
    [year |-> [N |-> Str(payload.d["year"])],
     title |-> [S |-> Str(payload.d["title"])],
     id |-> [S |-> Str(payload.d["id"])]]

\* The Item of the branch without a body.
DefaultItem(default_id) ==
    [year |-> [N |-> "2012"],
     title |-> [S |-> "The Amazing Spider-Man 2"],
     id |-> [S |-> default_id]]

UuidPool == {"uuid-" \o ToString(k) : k \in Invocations}

\* An identifier computed once and reused by every invocation.
Uuid4Reused(used) == CHOOSE u \in UuidPool : TRUE

\* str(uuid.uuid4()): an identifier not produced before.
Uuid4(used) == CHOOSE u \in UuidPool \ used : TRUE

Response(status, key, text) ==
    [returned |-> TRUE,
     statusCode |-> status,
     headers |-> ("Content-Type" :> "application/json"),
     body |-> JsonDumps(PyDict(key :> PyStr(text)))]

SuccessResponse == Response(200, "message", "Successfully inserted data!")

\* str(KeyError(key))
KeyErrorStr(key) == "'" \o key \o "'"

MissingFieldResponse(key) ==
    Response(400, "error", "Missing required field: " \o KeyErrorStr(key))

InvalidJsonResponse == Response(400, "error", "Invalid JSON format")

InternalErrorResponse == Response(500, "error", "Internal server error")

\* One clause, except (KeyError, Exception), in place of two.
ExceptAsKeyError(e) ==
    IF e.type = "JSONDecodeError"
    THEN [entry |-> Entry("ERROR", "json_parse_error"),
          response |-> InvalidJsonResponse]
    ELSE [entry |-> Entry("ERROR", "validation_error"),
          response |-> MissingFieldResponse(e.arg)]

\* The except clauses, in their order: the entry logged and the response.
Except(e) ==
    IF e.type = "KeyError"
    THEN [entry |-> Entry("ERROR", "validation_error"),
          response |-> MissingFieldResponse(e.arg)]
    ELSE IF e.type = "JSONDecodeError"
    THEN [entry |-> Entry("ERROR", "json_parse_error"),
          response |-> InvalidJsonResponse]
    ELSE [entry |-> Entry("ERROR", "error"),
          response |-> InternalErrorResponse]

\* The invocation has logged entries and raises e inside the try.
Caught(i, entries, e) ==
    /\ exc' = [exc EXCEPT ![i] = e]
    /\ log' = [log EXCEPT ![i] = entries \o <<Except(e).entry>>]
    /\ response' = [response EXCEPT ![i] = Except(e).response]
    /\ pc' = [pc EXCEPT ![i] = "done"]

\* The invocation has logged entries and calls put_item with it.
Call(i, entries, it) ==
    /\ item' = [item EXCEPT ![i] = it]
    /\ log' = [log EXCEPT ![i] = entries]
    /\ pc' = [pc EXCEPT ![i] = "put"]
    /\ UNCHANGED <<exc, response>>

\* The handler from its entry to the put_item call.
Invoke(i, req) ==
    /\ pc[i] = "idle"
    /\ IF i = 1 THEN TRUE ELSE pc[i - 1] # "idle"
    /\ request' = [request EXCEPT ![i] = req]
    /\ IF ReceiptRaises(req)
       THEN /\ pc' = [pc EXCEPT ![i] = "raised"]
            /\ exc' = [exc EXCEPT ![i] = Exc("AttributeError", "")]
            /\ UNCHANGED <<log, item, response, issued>>
       ELSE LET received == <<Entry("INFO", "request_received")>>
                body == Get(req.event, "body", PyNone)
            IN  IF Truthy(body)
                THEN /\ issued' = issued
                     /\ IF ~IsJson(body.s)
                        THEN /\ Caught(i, received, Exc("JSONDecodeError", ""))
                             /\ item' = item
                        ELSE LET payload == JsonLoads(body.s) IN
                             IF payload.t # "dict"
                             THEN /\ Caught(i, received, Exc("AttributeError", ""))
                                  /\ item' = item
                             ELSE LET entries == Append(received, Entry("INFO", "payload_received")) IN
                                  IF MissingKey(payload) # ""
                                  THEN /\ Caught(i, entries, Exc("KeyError", MissingKey(payload)))
                                       /\ item' = item
                                  ELSE Call(i, entries, PayloadItem(payload))
                ELSE LET default_id == Uuid4(issued) IN
                     /\ issued' = issued \cup {default_id}
                     /\ Call(i, Append(received, Entry("INFO", "request_without_payload")),
                             DefaultItem(default_id))
    /\ UNCHANGED <<demo_table, calls>>

\* The strings DynamoDB takes as the value of a number attribute.
NumberStrings == {ToString(n) : n \in 0..2100}

\* The table takes an item whose year, sent with type N, is a number.
TableAccepts(it) == it.year.N \in NumberStrings

\* What put_item can do with the item: succeed (TRUE), or raise (FALSE).
PutItemOutcomes(it) == IF TableAccepts(it) THEN {TRUE, FALSE} ELSE {FALSE}

\* put_item with ConditionExpression attribute_not_exists(id), the refusal
\* swallowed: an item already stored under the key is kept.
PutIfAbsent(tbl, it) ==
    IF \E r \in tbl : r.id = it.id THEN tbl ELSE tbl \cup {it}

\* update_item setting the year only: the stored title is kept.
UpdateYear(tbl, it) ==
    {r \in tbl : r.id # it.id}
    \cup {[it EXCEPT !.title = r.title] : r \in {q \in tbl : q.id = it.id}}
    \cup (IF \E r \in tbl : r.id = it.id THEN {} ELSE {it})

\* put_item without a condition: the item replaces the one with its key.
Upsert(tbl, it) == {r \in tbl : r.id # it.id} \cup {it}

\* The item is stored before the call raises.
TableAfterStored(tbl, it, ok) == {r \in tbl : r.id # it.id} \cup {it}

\* The table after a put_item call that succeeded (ok) or raised.
TableAfter(tbl, it, ok) == IF ok THEN Upsert(tbl, it) ELSE tbl

\* dynamodb_client.put_item(TableName=table, Item=...) and the rest of the
\* handler: the success entry and the 200 response, or the except clause.
PutItem(i) ==
    /\ pc[i] = "put"
    /\ \E ok \in PutItemOutcomes(item[i]) :
          /\ calls' = Append(calls, [by |-> i, TableName |-> TABLE_NAME,
                                     Item |-> item[i], ok |-> ok])
          /\ demo_table' = TableAfter(demo_table, item[i], ok)
          /\ IF ok
             THEN /\ log' = [log EXCEPT ![i] = Append(@, Entry("INFO", "dynamodb_write_success"))]
                  /\ response' = [response EXCEPT ![i] = SuccessResponse]
                  /\ pc' = [pc EXCEPT ![i] = "done"]
                  /\ exc' = exc
             ELSE Caught(i, log[i], Exc("ClientError", ""))
    /\ UNCHANGED <<request, item, issued>>

Next ==
    \/ \E i \in Invocations, req \in Requests : Invoke(i, req)
    \/ \E i \in Invocations : PutItem(i)

Spec == Init /\ [][Next]_vars

(***************************************************************************)
(* What the properties below speak of.                                     *)
(***************************************************************************)
Finished(i) == pc[i] \in {"done", "raised"}

BodyOf(i) == Get(request[i].event, "body", PyNone)

\* The body is present and is the text of a JSON document.
BodyParses(i) == Truthy(BodyOf(i)) /\ IsJson(BodyOf(i).s)

PayloadOf(i) == JsonLoads(BodyOf(i).s)

HasAllKeys(v) == v.t = "dict" /\ Keys \subseteq DOMAIN v.d

AbsentKeys(v) == IF v.t = "dict" THEN Keys \ DOMAIN v.d ELSE Keys

CallsBy(i) == SelectSeq(calls, LAMBDA c : c.by = i)

Count(seq, name) == Cardinality({k \in DOMAIN seq : seq[k].event = name})

Errors(seq) == Cardinality({k \in DOMAIN seq : seq[k].level = "ERROR"})

WellFormed(resp) ==
    /\ resp.returned
    /\ resp.statusCode \in {200, 400, 500}
    /\ "Content-Type" \in DOMAIN resp.headers
    /\ resp.headers["Content-Type"] = "application/json"

Rendered(v) ==
    CASE v = PyStr("a") -> "a"
      [] v = PyInt(7) -> "7"
      [] v = PyInt(2012) -> "2012"
      [] v = PyStr("1999") -> "1999"
      [] v = PyStr("abc") -> "abc"
      [] v = PyStr("x") -> "x"
      [] v = PyNone -> "None"

C2_NeverRaises ==
    \A i \in Invocations : Finished(i) => (pc[i] = "done" /\ WellFormed(response[i]))

(***************************************************************************)
(* C3.  As claimed: when the body parses as JSON and the parsed payload    *)
(* does not hold all of id, year and title, the response is the 400        *)
(* "Missing required field" response naming a key the payload lacks.       *)
(***************************************************************************)
C3_MissingFieldNamed ==
    \A i \in Invocations :
        (Finished(i) /\ BodyParses(i) /\ ~HasAllKeys(PayloadOf(i))) =>
            \E k \in AbsentKeys(PayloadOf(i)) : response[i] = MissingFieldResponse(k)

(***************************************************************************)
(* C4.  When the write of an invocation fails, on the payload path or the  *)
(* fallback path, the invocation returns the 500 "Internal server error"   *)
(* response, logs exactly one error entry and no dynamodb_write_success.   *)
(***************************************************************************)
C4_FailedWrite ==
    \A k \in DOMAIN calls :
        ~calls[k].ok =>
            LET i == calls[k].by IN
            /\ pc[i] = "done"
            /\ response[i] = [returned |-> TRUE, statusCode |-> 500,
                              headers |-> ("Content-Type" :> "application/json"),
                              body |-> "{\"error\": \"Internal server error\"}"]
            /\ Errors(log[i]) = 1
            /\ Count(log[i], "dynamodb_write_success") = 0

\* A write failed on the payload path and another on the fallback path.
C4_Witness ==
    \E k, m \in DOMAIN calls :
        /\ ~calls[k].ok /\ Truthy(BodyOf(calls[k].by))
        /\ ~calls[m].ok /\ ~Truthy(BodyOf(calls[m].by))

(***************************************************************************)
(* C5.  As claimed: when the body is present and is not valid JSON the     *)
(* response is the 400 "Invalid JSON format" response.                     *)
(***************************************************************************)
C5_InvalidJson ==
    \A i \in Invocations :
        (Finished(i) /\ Truthy(BodyOf(i)) /\ ~IsJson(BodyOf(i).s)) =>
            response[i] = InvalidJsonResponse

\* The same, of the invocations whose receipt step did not raise.
C5_InvalidJsonOnceReceived ==
    \A i \in Invocations :
        (pc[i] = "done" /\ Truthy(BodyOf(i)) /\ ~IsJson(BodyOf(i).s)) =>
            response[i] = InvalidJsonResponse

OkCalls == {k \in DOMAIN calls : calls[k].ok}

WritesTo(id) == {k \in OkCalls : calls[k].Item.id = id}

LastWriteTo(id) == CHOOSE k \in WritesTo(id) : \A m \in WritesTo(id) : m <= k

(***************************************************************************)
(* C6.  The write is an unconditional upsert: after any sequence of        *)
(* successful writes the table holds, for each id written, exactly one     *)
(* record, the one of the last write to that id; every successful write    *)
(* is answered with 200, also one that replaces an earlier record.         *)
(***************************************************************************)
C6_LastWriteWins ==
    /\ \A k \in OkCalls :
          /\ {r \in demo_table : r.id = calls[k].Item.id}
                = {calls[LastWriteTo(calls[k].Item.id)].Item}
          /\ response[calls[k].by].statusCode = 200
    /\ \A r \in demo_table : WritesTo(r.id) # {}

\* Two writes to one id with different titles and years succeeded, and the
\* table holds the second one only.
C6_Witness ==
    \E k, m \in OkCalls :
        /\ k < m
        /\ calls[k].Item.id = calls[m].Item.id
        /\ calls[k].Item.title # calls[m].Item.title
        /\ calls[k].Item.year # calls[m].Item.year
        /\ demo_table = {calls[m].Item}
        /\ response[calls[k].by] = SuccessResponse
        /\ response[calls[m].by] = SuccessResponse

FallbackTitle == "The Amazing Spider-Man 2"

\* The invocations without a body that returned 200.
FallbackSuccesses ==
    {i \in Invocations :
        pc[i] = "done" /\ ~Truthy(BodyOf(i)) /\ response[i].statusCode = 200}

OutcomeEntries(seq) ==
    {k \in DOMAIN seq : seq[k].level = "ERROR" \/ seq[k].event = "dynamodb_write_success"}

LogInOrder(i) ==
    /\ Len(log[i]) >= 2
    /\ log[i][1].event = "request_received"
    /\ Count(log[i], "request_received") = 1
    /\ Len(CallsBy(i)) <= 1
    /\ OutcomeEntries(log[i]) = {Len(log[i])}
    /\ log[i][Len(log[i])].event = "dynamodb_write_success"
          <=> (CallsBy(i) # <<>> /\ CallsBy(i)[1].ok)

(***************************************************************************)
(* C8.  As claimed: every invocation logs exactly one request_received     *)
(* entry, first; attempts at most one write; and then logs exactly one     *)
(* outcome entry, dynamodb_write_success or an error entry, the success    *)
(* entry only after its write succeeded.                                   *)
(***************************************************************************)
C8_LogOrder == \A i \in Invocations : Finished(i) => LogInOrder(i)

\* The same, of the invocations whose receipt step did not raise.
C8_LogOrderOnceReceived == \A i \in Invocations : pc[i] = "done" => LogInOrder(i)

WriteOutcome(i) ==
    IF CallsBy(i) = <<>> THEN "none"
    ELSE IF CallsBy(i)[1].ok THEN "ok" ELSE "failed"

\* The response the request gets when run alone, by the response table.
Alone(req, outcome) ==
    LET body == Get(req.event, "body", PyNone) IN
    IF outcome = "ok" THEN SuccessResponse
    ELSE IF outcome = "failed" THEN InternalErrorResponse
    ELSE IF ~IsJson(body.s) THEN InvalidJsonResponse
    ELSE IF JsonLoads(body.s).t # "dict" THEN InternalErrorResponse
    ELSE MissingFieldResponse(MissingKey(JsonLoads(body.s)))

(***************************************************************************)
(* C9.  Under every interleaving an invocation ends as it does when run    *)
(* alone with the same request and the same outcome of its own write, and  *)
(* the table holds for each id a record that one single successful write   *)
(* put there, the last one applied to that id.                             *)
(***************************************************************************)
C9_Independent ==
    /\ \A i \in Invocations :
          /\ pc[i] = "done" => response[i] = Alone(request[i], WriteOutcome(i))
          /\ pc[i] = "raised" => (ReceiptRaises(request[i]) /\ WriteOutcome(i) = "none")
          /\ Finished(i) => (WriteOutcome(i) = "none" <=> item[i] = NoItem)
          /\ \A k \in DOMAIN CallsBy(i) : CallsBy(i)[k].Item = item[i]
    /\ \A r \in demo_table : \E k \in OkCalls : r = calls[LastWriteTo(calls[k].Item.id)].Item
    /\ \A r1, r2 \in demo_table : r1.id = r2.id => r1 = r2

\* Two invocations were both waiting in put_item for the same id with
\* different records, both writes succeeded, and the table holds the later.
C9_Witness ==
    /\ Len(calls) = 2
    /\ calls[1].ok /\ calls[2].ok
    /\ calls[1].by = 2 /\ calls[2].by = 1
    /\ calls[1].Item.id = calls[2].Item.id
    /\ calls[1].Item # calls[2].Item
    /\ demo_table = {calls[2].Item}

TableChangeIsWrite ==
    demo_table' # demo_table =>
        \E i \in Invocations :
            /\ pc[i] = "put" /\ pc'[i] = "done"
            /\ response'[i].statusCode = 200
            /\ DOMAIN item[i] = Keys
            /\ demo_table' = {r \in demo_table : r.id # item[i].id} \cup {item[i]}

NoWriteByFailed ==
    \A i \in Invocations :
        (pc[i] = "done" /\ response[i].statusCode # 200) =>
            \A k \in DOMAIN calls : calls[k].by = i => ~calls[k].ok

(***************************************************************************)
(* C10.  An invocation that returns a response other than 200 leaves the   *)
(* table as it was: the table changes only in the step in which an         *)
(* invocation's write succeeds, that invocation returns 200, and the       *)
(* change puts its complete item (id, year and title); no record lacking   *)
(* a field is ever stored.                                                 *)
(***************************************************************************)
C10_FailureLeavesTable ==
    /\ [][TableChangeIsWrite]_vars
    /\ [](NoWriteByFailed /\ \A r \in demo_table : DOMAIN r = Keys)

\* After a successful write, an invocation whose write was refused returned
\* 500 and the table still holds the first record only.
C10_Witness ==
    /\ Len(calls) = 2
    /\ calls[1].ok /\ ~calls[2].ok
    /\ calls[1].Item.id = calls[2].Item.id
    /\ calls[1].Item # calls[2].Item
    /\ response[calls[2].by].statusCode = 500
    /\ demo_table = {calls[1].Item}

====
